---- MODULE Spec2Model ----
(***************************************************************************)
(* A model of PyNeutron (pyneutron/app.py, fitting.py, plotting.py,        *)
(* utils.py, data_loader.py): the analysis session held by                 *)
(* NeutronAnalysisApp (current dataset, selected Q index, fit-result       *)
(* collection), its button/slider handlers, and the pure functions         *)
(* fit_spectrum, plot_fit_results (aggregation part), export_results and   *)
(* load_nexus_file.                                                        *)
(*                                                                         *)
(* Floating-point values are fixed-point integers in hundredths            *)
(* (0.1 is 10, 5.0 is 500); NaN and Inf are two out-of-band values whose   *)
(* comparisons follow IEEE-754 (every comparison with NaN is false).       *)
(* A numpy array is a record: shape is the tuple of dimension lengths, v   *)
(* the sequence of elements of a 1-D array, m the sequence of rows of a    *)
(* 2-D array.  Python's 0-based index i is position i + 1 of a sequence.   *)
(***************************************************************************)
EXTENDS Integers, Sequences, FiniteSets, TLC

VARIABLES data,             \* self.data : the current dataset
          current_q_index,  \* self.current_q_index
          fit_results,      \* self.fit_results : list of None | (popt, perr)
          slider_to,        \* the 'to' end of self.q_slider (its from_ is 0)
          last,             \* what the last handler did (operation, escape of
                            \* an exception, per-index solver log, file written)
          call              \* harness of the pure functions: arguments and
                            \* returned value of the last call

vars == <<data, current_q_index, fit_results, slider_to, last, call>>

-----------------------------------------------------------------------------
(* Bounds of the model *)

MaxQ == 2        \* largest number of Q values of a file
NOmega == 5      \* number of energy-transfer samples per spectrum
MaxLen == 3      \* longest collection handed to the pure functions

-----------------------------------------------------------------------------
(* Floating point *)

NaN == -1000000
Inf == 1000000

IsFinite(v) == v # NaN /\ v # Inf

\* a > b on floats
Gt(a, b) ==
    IF a = NaN \/ b = NaN THEN FALSE
    ELSE IF a = Inf THEN b # Inf
    ELSE IF b = Inf THEN FALSE
    ELSE a > b

\* a <= b on floats
Le(a, b) ==
    IF a = NaN \/ b = NaN THEN FALSE
    ELSE IF b = Inf THEN TRUE
    ELSE IF a = Inf THEN FALSE
    ELSE a <= b

\* numpy.sqrt of one element (rounded down to the fixed-point grid)
Sqrt(v) ==
    IF v = NaN \/ v = Inf THEN v
    ELSE IF v < 0 THEN NaN
    ELSE CHOOSE r \in 0..(v + 100) : r * r <= 100 * v /\ (r + 1) * (r + 1) > 100 * v

\* abs() of one element
Abs(v) == IF v = NaN \/ v = Inf THEN v ELSE IF v < 0 THEN 0 - v ELSE v

RECURSIVE SeqMax(_)
\* numpy.max of a non-empty 1-D array: NaN propagates
SeqMax(s) ==
    IF Len(s) = 1 THEN s[1]
    ELSE LET m == SeqMax(Tail(s))
         IN  IF s[1] = NaN \/ m = NaN THEN NaN
             ELSE IF Gt(m, s[1]) THEN m ELSE s[1]

RECURSIVE SeqMin(_)
\* numpy.min of a non-empty 1-D array: NaN propagates
SeqMin(s) ==
    IF Len(s) = 1 THEN s[1]
    ELSE LET m == SeqMin(Tail(s))
         IN  IF s[1] = NaN \/ m = NaN THEN NaN
             ELSE IF Gt(s[1], m) THEN m ELSE s[1]

\* numpy.argmax of a non-empty finite 1-D array: 0-based index of the first maximum
ArgMax(s) ==
    (CHOOSE k \in 1..Len(s) :
        /\ \A j \in 1..Len(s) : ~Gt(s[j], s[k])
        /\ \A j \in 1..(k - 1) : Gt(s[k], s[j])) - 1

-----------------------------------------------------------------------------
(* numpy arrays *)

Vec(s) == [shape |-> <<Len(s)>>, v |-> s]

\* an r x c array of the cells f[i, j]
Mat(r, c, f) ==
    [shape |-> <<r, c>>, m |-> [i \in 1..r |-> [j \in 1..c |-> f[i, j]]]]

Ndim(a) == Len(a.shape)

\* len(a): length of the first dimension
NpLen(a) == a.shape[1]

\* a.T
Transpose(a) ==
    IF Ndim(a) = 2
    THEN Mat(a.shape[2], a.shape[1],
             [i \in 1..a.shape[2], j \in 1..a.shape[1] |-> a.m[j][i]])
    ELSE a

\* a[i, :] for a 2-D array, 0-based i: a plain sequence
Row(a, i) == a.m[i + 1]

\* a[i] : an element of a 1-D array, a row (1-D array) of a 2-D array
Item(a, i) == IF Ndim(a) = 1 THEN a.v[i + 1] ELSE Vec(a.m[i + 1])

\* numpy.diag: the diagonal of a 2-D array, the diagonal matrix of a 1-D array
Diag(a) ==
    IF Ndim(a) = 2
    THEN LET n == IF a.shape[1] < a.shape[2] THEN a.shape[1] ELSE a.shape[2]
         IN  Vec([k \in 1..n |-> a.m[k][k]])
    ELSE Mat(a.shape[1], a.shape[1],
             [i \in 1..a.shape[1], j \in 1..a.shape[1] |->
                 IF i = j THEN a.v[i] ELSE 0])

\* numpy.sqrt, elementwise
NpSqrt(a) ==
    IF Ndim(a) = 2
    THEN Mat(a.shape[1], a.shape[2],
             [i \in 1..a.shape[1], j \in 1..a.shape[2] |-> Sqrt(a.m[i][j])])
    ELSE Vec([k \in 1..a.shape[1] |-> Sqrt(a.v[k])])

\* numpy.zeros_like of a 1-D parameter vector
ZerosLike(p) == Vec([k \in 1..Len(p) |-> 0])

RECURSIVE SelectIdx(_, _)
\* s[mask] : the elements of s whose 1-based positions are in the set keep, in order
SelectIdx(s, keep) ==
    IF s = <<>> THEN <<>>
    ELSE LET n == Len(s)
             front == SelectIdx(SubSeq(s, 1, n - 1), keep)
         IN  IF n \in keep THEN Append(front, s[n]) ELSE front

\* Python's None
None == [none |-> TRUE]

-----------------------------------------------------------------------------
(* Fitting: pyneutron/fitting.py *)

MinPoints == 4

\* the three models of the "Fitting Model" radio buttons
Models == {"Lorentzian", "Double Lorentzian", "Gaussian"}

\* bounds = ([0, -10, 0.1, 0], [np.inf, 10, 5, np.inf]) and the 7-parameter
\* bounds of the double Lorentzian
BoundsOf(model) ==
    IF model = "Double Lorentzian"
    THEN [lo |-> <<0, -1000, 10, 0, -1000, 10, 0>>,
          hi |-> <<Inf, 1000, 500, Inf, 1000, 500, Inf>>]
    ELSE [lo |-> <<0, -1000, 10, 0>>,
          hi |-> <<Inf, 1000, 500, Inf>>]

\* What scipy.optimize.curve_fit may do on one call, besides rejecting its
\* arguments: converge, or give up after maxfev evaluations (RuntimeError).
SolverOutcomes == {"converged", "no_convergence"}

\* a solver that accepts every seed and every box (and clamps)
FeasibleAlways(p0, bounds) == TRUE

\* least_squares accepts x0 only inside the box, and only a box with lb < ub
Feasible(p0, bounds) ==
    /\ Len(bounds.lo) = Len(p0)
    /\ Len(bounds.hi) = Len(p0)
    /\ \A k \in 1..Len(p0) :
          /\ Gt(bounds.hi[k], bounds.lo[k])
          /\ Le(bounds.lo[k], p0[k])
          /\ Le(p0[k], bounds.hi[k])

\* the optimum the solver reports for a feasible seed: some point of the box.
\* The model moves every component of the seed by its position and keeps it
\* inside the box.
Optimum(p0, bounds) ==
    [k \in 1..Len(p0) |->
        LET c == p0[k] + k
        IN  IF Gt(c, bounds.hi[k]) THEN bounds.hi[k] ELSE c]

\* the covariance matrix curve_fit returns for a converged fit of n
\* parameters to m points: with no more points than parameters it cannot be
\* estimated, and curve_fit then returns a matrix filled with inf (never
\* None)
Covariance(n, m) ==
    IF m > n
    THEN Mat(n, n, [i \in 1..n, j \in 1..n |-> IF i = j THEN i * i ELSE 0])
    ELSE Mat(n, n, [i \in 1..n, j \in 1..n |-> Inf])

\* curve_fit(func, x_fit, y_fit, p0=p0, sigma=errors_fit, bounds=bounds, maxfev=maxfev)
curve_fit(x_fit, y_fit, errors_fit, p0, bounds, outcome) ==
    IF ~Feasible(p0, bounds)
    THEN [raised |-> "ValueError", popt |-> <<>>, pcov |-> Vec(<<>>)]
    ELSE IF outcome = "no_convergence"
    THEN [raised |-> "RuntimeError", popt |-> <<>>, pcov |-> Vec(<<>>)]
    ELSE [raised |-> "", popt |-> Optimum(p0, bounds),
          pcov |-> Covariance(Len(p0), Len(x_fit))]

\* mask = np.isfinite(x_data) & np.isfinite(y_data) & (y_errors > 0),
\* as the set of 1-based positions kept.  The three arrays must have one
\* length: numpy raises ValueError when they cannot be broadcast together.
MaskRaises(x_data, y_data, y_errors) ==
    Len(x_data) # Len(y_data) \/ Len(y_data) # Len(y_errors)

\* the mask without the test of the weights
MaskNoWeights(x_data, y_data, y_errors) ==
    {k \in 1..Len(x_data) : IsFinite(x_data[k]) /\ IsFinite(y_data[k])}

Mask(x_data, y_data, y_errors) ==
    {k \in 1..Len(x_data) :
        IsFinite(x_data[k]) /\ IsFinite(y_data[k]) /\ Gt(y_errors[k], 0)}

\* what fit_spectrum returns when it raises
FitRaise(message, solver, given) ==
    [raised |-> message, solver |-> solver, given |-> given,
     pcov |-> None, popt |-> <<>>, perr |-> Vec(<<>>)]

\* fit_spectrum(x_data, y_data, y_errors, func, p0, bounds): the returned
\* pair (popt, perr), or the exception raised.  solver tells whether
\* curve_fit was called, given the arrays it was called with, pcov the
\* covariance it returned.
fit_spectrum(x_data, y_data, y_errors, p0, bounds, outcome) ==
    IF MaskRaises(x_data, y_data, y_errors)
    THEN FitRaise("ValueError", FALSE, <<>>)
    ELSE
    LET mask == Mask(x_data, y_data, y_errors)
        x_fit == SelectIdx(x_data, mask)
        y_fit == SelectIdx(y_data, mask)
        errors_fit == SelectIdx(y_errors, mask)
    IN  IF Len(x_fit) < MinPoints
        THEN FitRaise("Not enough valid data points for fitting", FALSE, <<>>)
        ELSE LET r == curve_fit(x_fit, y_fit, errors_fit, p0, bounds, outcome)
             IN  IF r.raised # ""
                 THEN FitRaise(r.raised, TRUE, <<x_fit, y_fit, errors_fit>>)
                 ELSE [raised |-> "", solver |-> TRUE,
                       given |-> <<x_fit, y_fit, errors_fit>>,
                       pcov |-> r.pcov,
                       popt |-> r.popt,
                       perr |-> IF r.pcov # None
                                THEN NpSqrt(Diag(r.pcov))
                                ELSE ZerosLike(r.popt)]

-----------------------------------------------------------------------------
(* Datasets: pyneutron/data_loader.py *)

\* The sample dataset has 50 Q values and 200 energies, and the Q slider is
\* built with the range 0..100; the model keeps "a file may have more or
\* fewer Q values than the sample" and "the slider starts wider than the
\* sample" at its own scale.
SampleLenQ == MaxQ - 1
SliderInitTo == 2 * SampleLenQ

\* numpy.linspace(a, b, n)
Linspace(a, b, n) ==
    [k \in 1..n |-> IF n = 1 THEN a ELSE a + ((k - 1) * (b - a)) \div (n - 1)]

\* exp(-t) for t >= 0, by the rational approximation 1 / (1 + t + t^2/2)
ExpNeg(t) == (100 * 100) \div (100 + t + (t * t) \div 200)

\* 0.05 * np.random.randn(len(omega)): the noise fields the model draws from
NoiseFields == {0, 1}

Noise(field, i, j) ==
    IF field = 0 THEN 0 ELSE IF (i + j) % 2 = 0 THEN 0 - 12 ELSE 7

\* create_sample_data()
create_sample_data(field) ==
    LET q == Linspace(10, 300, SampleLenQ)
        omega == Linspace(-500, 500, NOmega)
        Cell(i, j) ==
            LET omega0 == 2 * q[i]
                gamma == 50 + q[i] \div 10
                g2 == (gamma \div 2) * (gamma \div 2)
                d1 == (omega[j] - omega0) * (omega[j] - omega0)
                d2 == (omega[j] + omega0) * (omega[j] + omega0)
                lorentzian == (500 * g2) \div (d1 + g2) + (50 * 900) \div (d2 + 900)
                background == (10 * ExpNeg((omega[j] * omega[j]) \div 1000)) \div 100
            IN  Abs(lorentzian + background + Noise(field, i, j))
        S_data == Mat(SampleLenQ, NOmega,
                      [i \in 1..SampleLenQ, j \in 1..NOmega |-> Cell(i, j)])
    IN  [q |-> q,
         omega |-> omega,
         S_data |-> S_data,
         S_errors |-> Mat(SampleLenQ, NOmega,
                          [i \in 1..SampleLenQ, j \in 1..NOmega |->
                              (10 * Sqrt(S_data.m[i][j] + 1)) \div 100]),
         filename |-> "Sample Data"]

\* a.flatten() of a 1-D or 2-D array, as a plain sequence
Flatten(a) ==
    IF Ndim(a) = 2
    THEN [k \in 1..(a.shape[1] * a.shape[2]) |->
             a.m[((k - 1) \div a.shape[2]) + 1][((k - 1) % a.shape[2]) + 1]]
    ELSE a.v

\* np.ones_like(s_data) * np.sqrt(np.abs(s_data) + 0.01)
DefaultErrors(s_data) ==
    IF Ndim(s_data) = 2
    THEN Mat(s_data.shape[1], s_data.shape[2],
             [i \in 1..s_data.shape[1], j \in 1..s_data.shape[2] |->
                 Sqrt(IF IsFinite(s_data.m[i][j])
                      THEN Abs(s_data.m[i][j]) + 1 ELSE s_data.m[i][j])])
    ELSE Vec([k \in 1..s_data.shape[1] |->
                 Sqrt(IF IsFinite(s_data.v[k]) THEN Abs(s_data.v[k]) + 1 ELSE s_data.v[k])])

\* load_nexus_file(filename) on the datasets find_dataset locates in the
\* file: the dataset returned, or the exception raised.
load_nexus_file(f) ==
    IF ~f.found
    THEN [raised |-> "Could not find required datasets in file", data |-> None]
    ELSE
    LET transposed1 == Ndim(f.s_data) = 2 /\ f.s_data.shape[1] # NpLen(f.q_data)
        s1 == IF transposed1 THEN Transpose(f.s_data) ELSE f.s_data
        e1 == IF transposed1 /\ f.errors_data # None /\ f.errors_data.shape = s1.shape
              THEN Transpose(f.errors_data) ELSE f.errors_data
        q == Flatten(f.q_data)
        omega == Flatten(f.omega_data)
        S_errors == IF e1 # None THEN e1 ELSE DefaultErrors(s1)
    IN  IF Ndim(s1) # 2
        THEN [raised |-> "Expected 2D data", data |-> None]
        ELSE IF s1.shape[1] # Len(q)
        THEN IF s1.shape[2] = Len(q)
             THEN [raised |-> "",
                   data |-> [q |-> q, omega |-> omega, S_data |-> Transpose(s1),
                             S_errors |-> Transpose(S_errors),
                             filename |-> f.filename]]
             ELSE [raised |-> "Data shape mismatch", data |-> None]
        ELSE [raised |-> "",
              data |-> [q |-> q, omega |-> omega, S_data |-> s1,
                        S_errors |-> S_errors, filename |-> f.filename]]

(* The files of the model.  A file is what find_dataset locates in it:
   q, omega, the intensity grid, the error grid (or None).  The grid of a
   file is stored Q-major ("rows"), energy-major ("cols"), with one row too
   many ("tall"), with one energy too few ("narrow") or as a flat 1-D array
   ("flat"); its errors are absent ("none"), in the layout of the grid
   ("same") or in the other layout ("other"); q is 1-D or a 1 x nq array.
   The intensities are clean, have gaps (a NaN, zero errors), an offset (a
   negative intensity, a spike at a point of zero error) or lie on a wide
   energy axis that reaches beyond [-10, 10]. *)
Layouts == {"rows", "cols", "tall", "narrow", "flat"}
ErrorKinds == {"none", "same", "other"}
Patterns == {"clean", "gaps", "offset", "wide"}

\* intensity of spectrum qi (1-based) at energy wj (1-based)
Intensity(pat, qi, wj) ==
    LET peak == ((qi - 1) % NOmega) + 1
        base == IF wj = peak THEN 400 + 10 * qi ELSE 20 + wj
    IN  IF pat = "gaps" /\ qi = 2 /\ wj = NOmega THEN NaN
        ELSE IF pat = "offset" /\ qi = 1 /\ wj = NOmega THEN 0 - 5
        ELSE IF pat = "offset" /\ qi = 2 /\ wj = 1 THEN 900
        ELSE base

\* error of spectrum qi at energy wj, when the file has errors
ErrorOf(pat, qi, wj) ==
    IF pat = "gaps" /\ qi = 1 /\ wj \in {1, 3} THEN 0
    ELSE IF pat = "offset" /\ qi = 2 /\ wj = 1 THEN 0
    ELSE 10 + qi

\* the grid of a file in a layout; what is "intensity" or "error"
GridOf(layout, nq, pat, what) ==
    LET F(i, j) == IF what = "intensity" THEN Intensity(pat, i, j)
                   ELSE ErrorOf(pat, i, j)
    IN  IF layout = "rows"
        THEN Mat(nq, NOmega, [i \in 1..nq, j \in 1..NOmega |-> F(i, j)])
        ELSE IF layout = "cols"
        THEN Mat(NOmega, nq, [i \in 1..NOmega, j \in 1..nq |-> F(j, i)])
        ELSE IF layout = "tall"
        THEN Mat(nq + 1, NOmega, [i \in 1..(nq + 1), j \in 1..NOmega |-> F(i, j)])
        ELSE IF layout = "narrow"
        THEN Mat(nq, NOmega - 1, [i \in 1..nq, j \in 1..(NOmega - 1) |-> F(i, j)])
        ELSE Vec([k \in 1..(nq * NOmega) |->
                     F(((k - 1) \div NOmega) + 1, ((k - 1) % NOmega) + 1)])

OtherLayout(layout) == IF layout = "cols" THEN "rows" ELSE "cols"

MkFile(nq, layout, ek, pat, q2d) ==
    [found |-> TRUE,
     q_data |-> IF q2d THEN Mat(1, nq, [i \in 1..1, j \in 1..nq |-> 10 * j])
                ELSE Vec([k \in 1..nq |-> 10 * k]),
     omega_data |-> IF pat = "wide" THEN Vec(Linspace(-2000, 2000, NOmega))
                    ELSE Vec(Linspace(-200, 200, NOmega)),
     s_data |-> GridOf(layout, nq, pat, "intensity"),
     errors_data |->
        IF ek = "none" THEN None
        ELSE GridOf(IF ek = "same" THEN layout ELSE OtherLayout(layout), nq,
                    pat, "error"),
     filename |-> "file.nxs"]

\* a file without the required datasets
Unusable ==
    [found |-> FALSE, q_data |-> Vec(<<>>), omega_data |-> Vec(<<>>),
     s_data |-> Vec(<<>>), errors_data |-> None, filename |-> "other.h5"]

\* the files the user can pick in the file dialog of the session
SessionFiles ==
    { MkFile(MaxQ, "rows", "same", "gaps", FALSE),
      MkFile(MaxQ, "cols", "same", "clean", FALSE),
      MkFile(1, "rows", "same", "clean", FALSE),
      MkFile(MaxQ, "tall", "none", "clean", FALSE),
      Unusable }

\* what load_nexus_file returns for each of them
Loaded == [f \in SessionFiles |-> load_nexus_file(f)]

\* the datasets create_sample_data() can return
SampleDatasets == {create_sample_data(field) : field \in NoiseFields}

-----------------------------------------------------------------------------
(* Aggregation and plotting: pyneutron/plotting.py *)

NoSeries ==
    [valid_indices |-> <<>>, centers |-> <<>>, center_errors |-> <<>>,
     amplitudes |-> <<>>, amplitude_errors |-> <<>>,
     widths |-> <<>>, width_errors |-> <<>>]

\* the test with the wrong arity: 4 and more, 2 and more
AggregatedFour(result) == result # None /\ Len(result.popt) >= 4

AggregatedTwo(result) == result # None /\ Len(result.popt) >= 2

\* does the entry pass the test of the aggregation loop:
\* result is not None and len(result[0]) >= 3
Aggregated(result) == result # None /\ Len(result.popt) >= 3

RECURSIVE ExtractValid(_, _)
\* the loop "for i, result in enumerate(fit_results)" of plot_fit_results,
\* over the first n entries
ExtractValid(results, n) ==
    IF n = 0 THEN NoSeries
    ELSE LET acc == ExtractValid(results, n - 1)
             result == results[n]
             i == n - 1
         IN  IF Aggregated(result)
             THEN LET popt == result.popt
                      perr == result.perr
                      wide == Len(popt) > 2
                  IN  [valid_indices |-> Append(acc.valid_indices, i),
                       centers |-> Append(acc.centers, popt[2]),
                       center_errors |->
                          Append(acc.center_errors,
                                 IF NpLen(perr) > 1 THEN Item(perr, 1) ELSE 0),
                       amplitudes |-> Append(acc.amplitudes, popt[1]),
                       amplitude_errors |->
                          Append(acc.amplitude_errors,
                                 IF NpLen(perr) > 0 THEN Item(perr, 0) ELSE 0),
                       widths |-> IF wide THEN Append(acc.widths, popt[3])
                                  ELSE acc.widths,
                       width_errors |->
                          IF wide
                          THEN Append(acc.width_errors,
                                      IF NpLen(perr) > 2 THEN Item(perr, 2) ELSE 0)
                          ELSE acc.width_errors]
             ELSE acc

\* the series plot_fit_results builds before it draws anything
aggregate(results) == ExtractValid(results, Len(results))

\* plot_fit_results(ax3, ax4, data, fit_results, ...): returns without drawing,
\* draws, or raises.  data['q'][valid_indices] raises IndexError for an index
\* past the end of q; errorbar raises ValueError unless yerr has one scalar
\* per point.
plot_fit_results(d, results) ==
    LET series == aggregate(results)
        valid == series.valid_indices
    IN  IF Len(results) = 0 \/ valid = <<>>
        THEN [raised |-> FALSE, plotted |-> FALSE, series |-> series]
        ELSE IF \E k \in 1..Len(valid) : valid[k] >= Len(d.q)
        THEN [raised |-> TRUE, plotted |-> FALSE, series |-> series]
        ELSE IF \E k \in 1..Len(valid) : Ndim(results[valid[k] + 1].perr) # 1
        THEN [raised |-> TRUE, plotted |-> FALSE, series |-> series]
        ELSE [raised |-> FALSE, plotted |-> TRUE, series |-> series]

\* does the dataset carry errors of the shape of its intensities
HasErrors(d) == d.S_errors.shape = d.S_data.shape

\* update_plots(ax1, .., data, current_q_index, fit_results, ...): TRUE when
\* it raises.  Plotting the current spectrum raises when omega and the
\* spectrum differ in length.
update_plots(d, index, results) ==
    \/ /\ index < Len(d.q)
       /\ Len(d.omega) # Len(Row(d.S_data, index))
    \/ /\ Len(results) > 0
       /\ plot_fit_results(d, results).raised

-----------------------------------------------------------------------------
(* The session: pyneutron/app.py *)

\* the record of the last handler
Did(op, outcome, raised, log, file) ==
    [op |-> op, outcome |-> outcome, raised |-> raised, log |-> log, file |-> file]

NoCall == [fn |-> "", args |-> <<>>, ret |-> <<>>]

\* NeutronAnalysisApp.__init__
Init ==
    /\ data \in SampleDatasets
    /\ current_q_index = 0
    /\ fit_results = <<>>
    /\ slider_to = SliderInitTo
    /\ last = Did("__init__", "", FALSE, <<>>, None)
    /\ call = NoCall

\* NeutronAnalysisApp.use_sample_data, as the state it leaves and whether an
\* exception escapes it.  The fit results are not touched.
UseSampleData(sample, results, op, outcome) ==
    /\ data' = sample
    /\ last' = Did(op, outcome,
                   update_plots(data', current_q_index, results), <<>>, None)

use_sample_data ==
    /\ data # None
    /\ \E sample \in SampleDatasets :
          UseSampleData(sample, fit_results, "use_sample_data", "sample")
    /\ UNCHANGED <<current_q_index, fit_results, slider_to, call>>

\* NeutronAnalysisApp.load_file: the dialog returns a file or "" (cancel)
load_file ==
    \/ /\ last' = Did("load_file", "cancelled", FALSE, <<>>, None)
       /\ UNCHANGED <<data, current_q_index, fit_results, slider_to, call>>
    \/ \E f \in SessionFiles :
          LET r == Loaded[f]
              num_q_points == Len(r.data.q)
          IN  IF r.raised # ""
              THEN \* except: ... self.use_sample_data()
                   /\ \E sample \in SampleDatasets :
                         UseSampleData(sample, fit_results, "load_file", "fallback")
                   /\ UNCHANGED <<current_q_index, fit_results, slider_to, call>>
              ELSE /\ slider_to' = IF num_q_points > 1 THEN num_q_points - 1 ELSE 1
                   /\ fit_results' = <<>>
                   /\ IF update_plots(r.data, current_q_index, <<>>)
                      THEN \* the exception is caught after the reset
                           \E sample \in SampleDatasets :
                              UseSampleData(sample, <<>>, "load_file", "fallback")
                      ELSE /\ data' = r.data
                           /\ last' = Did("load_file", "loaded", FALSE, <<>>, None)
                   /\ UNCHANGED <<current_q_index, call>>

\* int(float(value)) for the value the slider passes (non-negative)
IntOfFloat(value) == value \div 100

\* the values the slider can pass: its range is from_=0 .. to
SliderValues(to) == {100 * k : k \in 0..to} \cup {100 * k + 50 : k \in 0..(to - 1)}

\* NeutronAnalysisApp.on_q_change(value)
on_q_change ==
    /\ data # None
    /\ \E value \in SliderValues(slider_to) :
          LET index == IntOfFloat(value)
          IN  /\ current_q_index' =
                    IF index >= Len(data.q) THEN Len(data.q) - 1 ELSE index
              /\ last' = Did("on_q_change", "", 
                             update_plots(data, current_q_index', fit_results),
                             <<>>, None)
    /\ UNCHANGED <<data, fit_results, slider_to, call>>

\* the error weights of spectrum i: the dataset's errors when they have the
\* shape of the intensities, else np.ones_like(y_data) * 0.1
DefaultWeight == 10

SpectrumErrors(d, i) ==
    IF HasErrors(d) THEN Row(d.S_errors, i)
    ELSE [k \in 1..Len(Row(d.S_data, i)) |-> DefaultWeight]

\* float(text) of the text of an entry field: the number, or NaN for a text
\* float() rejects with ValueError (no entry of the model spells "nan")
EntryTexts == {"5.0", "0.0", "1.0", "0.1", "0", "abc"}

ParseFloat(text) ==
    CASE text = "5.0" -> 500
      [] text = "0.0" -> 0
      [] text = "1.0" -> 100
      [] text = "0.1" -> 10
      [] text = "0" -> 0
      [] OTHER -> NaN

\* the contents of the four entry fields (amplitude, center, width,
\* background) the user may have typed: the defaults of setup_controls, a
\* width outside the bounds, an amplitude that is not a number
EntryChoices ==
    { <<"5.0", "0.0", "1.0", "0.1">>,
      <<"5.0", "0.0", "0", "0.1">>,
      <<"abc", "0.0", "1.0", "0.1">> }

\* p0 of fit_current for the selected model
InitialGuess(model, entries) ==
    LET A0 == ParseFloat(entries[1])
        x00 == ParseFloat(entries[2])
        gamma0 == ParseFloat(entries[3])
        C0 == ParseFloat(entries[4])
    IN  IF model = "Double Lorentzian"
        THEN <<A0, x00, gamma0, A0 \div 2, 0 - x00, gamma0, C0>>
        ELSE <<A0, x00, gamma0, C0>>

\* storing by appending to the list
StoreResultAppend(results, index, entry) == Append(results, entry)

\* self.fit_results.extend([None] * (index - len + 1)) when the list is too
\* short, then self.fit_results[index] = entry
StoreResult(results, index, entry) ==
    LET padded == IF Len(results) <= index
                  THEN results \o [k \in 1..(index - Len(results) + 1) |-> None]
                  ELSE results
    IN  [padded EXCEPT ![index + 1] = entry]

\* NeutronAnalysisApp.fit_current: every exception is caught and shown
fit_current ==
    /\ data # None
    /\ \E model \in Models, entries \in EntryChoices, outcome \in SolverOutcomes :
          IF current_q_index >= Len(data.q)
          THEN \* IndexError at self.data['q'][self.current_q_index]
               /\ last' = Did("fit_current", "IndexError", FALSE, <<>>, None)
               /\ UNCHANGED fit_results
          ELSE IF \E k \in 1..4 : ParseFloat(entries[k]) = NaN
          THEN \* ValueError of float()
               /\ last' = Did("fit_current", "ValueError", FALSE, <<>>, None)
               /\ UNCHANGED fit_results
          ELSE LET r == fit_spectrum(data.omega,
                                     Row(data.S_data, current_q_index),
                                     SpectrumErrors(data, current_q_index),
                                     InitialGuess(model, entries),
                                     BoundsOf(model), outcome)
               IN  IF r.raised # ""
                   THEN /\ last' = Did("fit_current", r.raised, FALSE, <<>>, None)
                        /\ UNCHANGED fit_results
                   ELSE /\ fit_results' =
                              StoreResult(fit_results, current_q_index,
                                          [popt |-> r.popt, perr |-> r.perr])
                        /\ last' = Did("fit_current", "fitted", FALSE, <<>>, None)
    /\ UNCHANGED <<data, current_q_index, slider_to, call>>

\* the body of the loop of fit_all for Q index i: the entry appended, what
\* happened (skipped: fewer than 4 valid points; failed: an exception was
\* caught; fitted) and the seed p0 handed to fit_spectrum (<<>> when it was
\* not called)
FitOne(d, i, outcome) ==
    LET x_data == d.omega
        y_data == Row(d.S_data, i)
        y_errors == SpectrumErrors(d, i)
        A0 == SeqMax(y_data)
        C0 == SeqMin(y_data)
    IN  IF MaskRaises(x_data, y_data, y_errors)
        THEN [entry |-> None, event |-> "failed", p0 |-> <<>>]
        ELSE
        LET mask == Mask(x_data, y_data, y_errors)
            x_fit == SelectIdx(x_data, mask)
            y_fit == SelectIdx(y_data, mask)
        IN  IF Len(x_fit) < 4
            THEN [entry |-> None, event |-> "skipped", p0 |-> <<>>]
            ELSE
            LET center_idx == ArgMax(y_fit)
                x00 == IF center_idx < Len(x_fit) THEN x_fit[center_idx + 1] ELSE 0
                gamma0 == 100
                p0 == <<A0, x00, gamma0, C0>>
                r == fit_spectrum(x_data, y_data, y_errors, p0,
                                  BoundsOf("Lorentzian"), outcome)
                \* popt, pcov = fit_spectrum(...): pcov is the error vector
                pcov == r.perr
                perr == IF pcov # None THEN NpSqrt(Diag(pcov)) ELSE ZerosLike(r.popt)
            IN  IF r.raised # ""
                THEN [entry |-> None, event |-> "failed", p0 |-> p0]
                ELSE [entry |-> [popt |-> r.popt, perr |-> perr],
                      event |-> "fitted", p0 |-> p0]

RECURSIVE FitLoopAbort(_, _, _)
\* the loop that stops at the first exception instead of recording None
FitLoopAbort(d, outcomes, n) ==
    IF n = 0 THEN [results |-> <<>>, log |-> <<>>]
    ELSE LET acc == FitLoopAbort(d, outcomes, n - 1)
             one == FitOne(d, n - 1, outcomes[n])
         IN  IF Len(acc.log) < n - 1 \/ one.event = "failed"
             THEN acc
             ELSE [results |-> Append(acc.results, one.entry),
                   log |-> Append(acc.log, [i |-> n - 1, event |-> one.event,
                                          p0 |-> one.p0])]

RECURSIVE FitLoop(_, _, _)
\* for i in range(n): the list built and the log of the indices visited
FitLoop(d, outcomes, n) ==
    IF n = 0 THEN [results |-> <<>>, log |-> <<>>]
    ELSE LET acc == FitLoop(d, outcomes, n - 1)
             one == FitOne(d, n - 1, outcomes[n])
         IN  [results |-> Append(acc.results, one.entry),
              log |-> Append(acc.log, [i |-> n - 1, event |-> one.event,
                                          p0 |-> one.p0])]

\* a batch fit that cleans the dataset in place: the intensities that are not
\* finite are overwritten with 0 in self.data
fit_allInPlace ==
    /\ data # None
    /\ \E outcomes \in [1..Len(data.q) -> SolverOutcomes] :
          LET loop == FitLoop(data, outcomes, Len(data.q))
              s == data.S_data
              cleaned == Mat(s.shape[1], s.shape[2],
                             [i \in 1..s.shape[1], j \in 1..s.shape[2] |->
                                 IF IsFinite(s.m[i][j]) THEN s.m[i][j] ELSE 0])
          IN  /\ fit_results' = loop.results
              /\ data' = [data EXCEPT !.S_data = cleaned]
              /\ last' = Did("fit_all", "",
                             update_plots(data, current_q_index, loop.results),
                             loop.log, None)
    /\ UNCHANGED <<current_q_index, slider_to, call>>

\* NeutronAnalysisApp.fit_all
fit_all ==
    /\ data # None
    /\ \E outcomes \in [1..Len(data.q) -> SolverOutcomes] :
          LET loop == FitLoop(data, outcomes, Len(data.q))
          IN  /\ fit_results' = loop.results
              /\ last' = Did("fit_all", "",
                             update_plots(data, current_q_index, loop.results),
                             loop.log, None)
    /\ UNCHANGED <<data, current_q_index, slider_to, call>>

-----------------------------------------------------------------------------
(* Export: pyneutron/utils.py *)

\* '%.6f' % v
Fmt(v) ==
    IF v = NaN THEN "nan"
    ELSE IF v = Inf THEN "inf"
    ELSE LET a == Abs(v)
             frac == a % 100
         IN  (IF v < 0 THEN "-" ELSE "") \o ToString(a \div 100) \o "."
             \o (IF frac < 10 THEN "0" ELSE "") \o ToString(frac) \o "0000"

RECURSIVE Join(_)
Join(texts) ==
    IF texts = <<>> THEN ""
    ELSE IF Len(texts) = 1 THEN texts[1]
    ELSE texts[1] \o " " \o Join(Tail(texts))

\* the text to_csv writes for one cell: a missing value (NaN) is written as
\* the empty field, a float with float_format, an array cell by its str()
CellText(cell, isArray) ==
    IF isArray THEN "[" \o Join([k \in 1..Len(cell.v) |-> Fmt(cell.v[k])]) \o "]"
    ELSE IF cell = NaN THEN ""
    ELSE Fmt(cell)

param_names == <<"Amplitude", "Center", "Width", "Background">>

\* name = param_names[i] if i < len(param_names) else f'Param_{i}'
ParamName(i) ==
    IF i < Len(param_names) THEN param_names[i + 1] ELSE "Param_" \o ToString(i)

\* columns = ['Q', name, name_error, ...]
Columns(num_params) ==
    <<"Q">> \o [k \in 1..(2 * num_params) |->
                  IF k % 2 = 1 THEN ParamName((k - 1) \div 2)
                  ELSE ParamName((k - 1) \div 2) \o "_error"]

RECURSIVE Present(_, _)
\* the 0-based indices of the entries that are not None among the first n, in order
Present(results, n) ==
    IF n = 0 THEN <<>>
    ELSE IF results[n] # None THEN Append(Present(results, n - 1), n - 1)
    ELSE Present(results, n - 1)

\* a row sized to the arity of its own entry
RowTextOwnArity(qv, result, num_params) ==
    <<CellText(qv, FALSE)>> \o
    [k \in 1..(2 * Len(result.popt)) |->
        LET i == (k - 1) \div 2
        IN  IF k % 2 = 1
            THEN CellText(result.popt[i + 1], FALSE)
            ELSE IF i < NpLen(result.perr)
                 THEN CellText(Item(result.perr, i), Ndim(result.perr) = 2)
                 ELSE CellText(NaN, FALSE)]

\* row = [q] + [params[i] or nan, errors[i] or nan for i in range(num_params)],
\* as the fields written
RowText(qv, result, num_params) ==
    <<CellText(qv, FALSE)>> \o
    [k \in 1..(2 * num_params) |->
        LET i == (k - 1) \div 2
        IN  IF k % 2 = 1
            THEN CellText(IF i < Len(result.popt) THEN result.popt[i + 1] ELSE NaN, FALSE)
            ELSE IF i < NpLen(result.perr)
                 THEN CellText(Item(result.perr, i), Ndim(result.perr) = 2)
                 ELSE CellText(NaN, FALSE)]

\* an export that writes the header line when nothing is present
export_resultsHeaderOnly(d, results) ==
    LET present == Present(results, Len(results))
    IN  IF \E k \in 1..Len(present) : present[k] >= Len(d.q)
        THEN [raised |-> "IndexError", file |-> None]
        ELSE [raised |-> "",
              file |-> [header |-> Columns(0),
                        rows |-> [k \in 1..Len(present) |->
                                    RowText(d.q[present[k] + 1],
                                            results[present[k] + 1], 0)]]]

\* utils.export_results(filename, data, fit_results): the file written
\* (header and data rows), or the exception raised
export_results(d, results) ==
    LET present == Present(results, Len(results))
    IN  IF \E k \in 1..Len(present) : present[k] >= Len(d.q)
        THEN [raised |-> "IndexError", file |-> None]
        ELSE IF present = <<>>
        THEN [raised |-> "No valid fit results to export", file |-> None]
        ELSE LET num_params == Len(results[present[1] + 1].popt)
             IN  [raised |-> "",
                  file |-> [header |-> Columns(num_params),
                            rows |-> [k \in 1..Len(present) |->
                                        RowText(d.q[present[k] + 1],
                                                results[present[k] + 1],
                                                num_params)]]]

\* an export handler that removes the absent entries from the collection
\* it exports
app_export_resultsCompacting ==
    /\ \E filename \in {"", "results.csv"} :
          IF data = None \/ Len(fit_results) = 0
          THEN /\ last' = Did("export_results", "No fit results to export", FALSE, <<>>, None)
               /\ UNCHANGED fit_results
          ELSE IF filename = ""
          THEN /\ last' = Did("export_results", "cancelled", FALSE, <<>>, None)
               /\ UNCHANGED fit_results
          ELSE LET r == export_results(data, fit_results)
                   present == Present(fit_results, Len(fit_results))
               IN  /\ last' = Did("export_results",
                                  IF r.raised = "" THEN "exported" ELSE r.raised,
                                  FALSE, <<>>, r.file)
                   /\ fit_results' = [k \in 1..Len(present) |->
                                         fit_results[present[k] + 1]]
    /\ UNCHANGED <<data, current_q_index, slider_to, call>>

\* NeutronAnalysisApp.export_results: the save dialog returns a name or ""
app_export_results ==
    /\ \E filename \in {"", "results.csv"} :
          IF data = None \/ Len(fit_results) = 0
          THEN last' = Did("export_results", "No fit results to export", FALSE, <<>>, None)
          ELSE IF filename = ""
          THEN last' = Did("export_results", "cancelled", FALSE, <<>>, None)
          ELSE LET r == export_results(data, fit_results)
               IN  last' = Did("export_results",
                               IF r.raised = "" THEN "exported" ELSE r.raised,
                               FALSE, <<>>, r.file)
    /\ UNCHANGED <<data, current_q_index, fit_results, slider_to, call>>

-----------------------------------------------------------------------------
(* The session as a state machine: the handlers Tk may call in any order *)

Next ==
    \/ use_sample_data
    \/ load_file
    \/ on_q_change
    \/ fit_current
    \/ fit_all
    \/ app_export_results

Spec == Init /\ [][Next]_vars

-----------------------------------------------------------------------------
(* The pure functions, called on bounded inputs *)

\* the session of a harness: the state after __init__, never changed; a
\* behaviour of a harness is one call
InitCalls ==
    /\ data = create_sample_data(0)
    /\ current_q_index = 0
    /\ fit_results = <<>>
    /\ slider_to = SliderInitTo
    /\ last = Did("__init__", "", FALSE, <<>>, None)
    /\ call = NoCall

session == <<data, current_q_index, fit_results, slider_to, last>>

\* the spectra handed to fit_spectrum: FitLen points
FitLen == 5

XArrays ==
    {[k \in 1..FitLen |-> IF k = 2 THEN x2 ELSE 100 * k - 300] : x2 \in {-100, NaN, Inf}}

YArrays == [1..FitLen -> {NaN, 40}]

ErrArrays == [1..FitLen -> {0, 10}]

\* the bounds argument of fit_spectrum: the box of the application, and a
\* box whose width bounds are the wrong way round (lower 5 above upper 0.1)
InvertedBounds(model) ==
    LET b == BoundsOf(model)
    IN  [lo |-> [b.lo EXCEPT ![3] = b.hi[3]], hi |-> [b.hi EXCEPT ![3] = b.lo[3]]]

BoundsChoices(model) == {BoundsOf(model), InvertedBounds(model)}

\* a call of fit_spectrum
FitCall ==
    /\ call = NoCall
    /\ \E x \in XArrays, y \in YArrays, e \in ErrArrays,
          model \in {"Lorentzian", "Double Lorentzian"},
          entries \in {c \in EntryChoices : \A k \in 1..4 : ParseFloat(c[k]) # NaN},
          outcome \in SolverOutcomes :
          \E bounds \in BoundsChoices(model) :
             LET p0 == InitialGuess(model, entries)
             IN  call' = [fn |-> "fit_spectrum",
                          args |-> [x_data |-> x, y_data |-> y, y_errors |-> e,
                                    p0 |-> p0, bounds |-> bounds,
                                    outcome |-> outcome],
                          ret |-> fit_spectrum(x, y, e, p0, bounds, outcome)]
    /\ UNCHANGED session

SpecFit == InitCalls /\ [][FitCall]_vars

\* the entries of the collections handed to plot_fit_results: None, and
\* pairs (popt, perr) of 1 to 4 parameters whose errors are a vector of the
\* same length, a shorter vector, or a square matrix
EntryOf(n, m, tag) ==
    [popt |-> [k \in 1..n |-> 100 * k + tag], perr |-> Vec([k \in 1..m |-> 10 * k + tag])]

Entries ==
    {None}
    \cup {EntryOf(n, n, tag) : n \in 1..4, tag \in {0, 5}}
    \cup {EntryOf(3, 1, 0)}
    \cup {[popt |-> <<100, 200, 300, 400>>, perr |-> Diag(Vec(<<10, 20, 30, 40>>))]}

RECURSIVE SeqsUpTo(_, _)
\* the sequences of at most n elements of S
SeqsUpTo(S, n) ==
    IF n = 0 THEN {<<>>}
    ELSE LET shorter == SeqsUpTo(S, n - 1)
         IN  shorter \cup {Append(t, x) : t \in {u \in shorter : Len(u) = n - 1}, x \in S}

\* the datasets of the session
Datasets ==
    SampleDatasets \cup {Loaded[f].data : f \in {g \in SessionFiles : Loaded[g].raised = ""}}

\* a call of plot_fit_results
AggCall ==
    /\ call = NoCall
    /\ \E d \in Datasets, results \in SeqsUpTo(Entries, MaxLen) :
          call' = [fn |-> "plot_fit_results",
                   args |-> [q |-> d.q, fit_results |-> results],
                   ret |-> plot_fit_results(d, results)]
    /\ UNCHANGED session

SpecAgg == InitCalls /\ [][AggCall]_vars

\* the files handed to load_nexus_file: every layout of the grid and of the
\* errors, every pattern, 1 to MaxQ values of Q, q stored 1-D or 2-D, and a
\* file without the datasets
AllFiles ==
    {MkFile(nq, layout, ek, pat, q2d) :
        nq \in 1..MaxQ, layout \in Layouts, ek \in ErrorKinds,
        pat \in Patterns, q2d \in BOOLEAN}
    \cup {Unusable}

\* a call of load_nexus_file
LoadCall ==
    /\ call = NoCall
    /\ \E f \in AllFiles :
          call' = [fn |-> "load_nexus_file",
                   args |-> [file |-> f],
                   ret |-> load_nexus_file(f)]
    /\ UNCHANGED session

SpecLoad == InitCalls /\ [][LoadCall]_vars

\* the datasets a batch fit can run on: the sample data and every dataset
\* load_nexus_file returns
BatchDatasets ==
    SampleDatasets
    \cup {load_nexus_file(f).data : f \in {g \in AllFiles : load_nexus_file(g).raised = ""}}

\* a run of the loop of fit_all on a dataset
BatchCall ==
    /\ call = NoCall
    /\ \E d \in BatchDatasets :
          \E outcomes \in [1..Len(d.q) -> SolverOutcomes] :
             call' = [fn |-> "fit_all",
                      args |-> [data |-> d, outcomes |-> outcomes],
                      ret |-> FitLoop(d, outcomes, Len(d.q))]
    /\ UNCHANGED session

\* fit_spectrum called directly and through the loop of fit_all
SpecBatch == InitCalls /\ [][FitCall \/ BatchCall]_vars

-----------------------------------------------------------------------------
(* Properties *)

\* the 0-based indices of the entries of a collection that are not None
PresentSet(results) == {k - 1 : k \in {j \in 1..Len(results) : results[j] # None}}

\* the number of points of spectrum i with finite x, finite y and a positive weight
ValidCount(d, i) ==
    Cardinality({k \in 1..Len(d.omega) :
        /\ IsFinite(d.omega[k])
        /\ IsFinite(Row(d.S_data, i)[k])
        /\ Gt(SpectrumErrors(d, i)[k], 0)})

\* C1: fit_all lets no exception escape, and when it is over the collection
\* has exactly len(q) entries, of which at most len(q) are present.
C1_FitAllNeverRaises ==
    last.op = "fit_all" =>
        /\ ~last.raised
        /\ Len(fit_results) = Len(data.q)
        /\ Cardinality(PresentSet(fit_results)) <= Len(data.q)

\* C2: fit_all visits the Q indices 0..len(q)-1 in increasing order; slot i
\* is None when spectrum i has fewer than 4 valid points or its fit failed,
\* and holds the result fitted from spectrum i otherwise; a failure at an
\* index does not keep a later index from being attempted and recorded.
C2_FitAllResilient ==
    last.op = "fit_all" =>
        /\ Len(last.log) = Len(data.q)
        /\ Len(fit_results) = Len(data.q)
        /\ \A k \in 1..Len(last.log) : last.log[k].i = k - 1
        /\ \A k \in 1..Len(data.q) :
              IF ValidCount(data, k - 1) < 4 \/ last.log[k].event = "failed"
              THEN fit_results[k] = None
              ELSE /\ fit_results[k] # None
                   /\ fit_results[k] = FitOne(data, k - 1, "converged").entry

\* a batch in which a spectrum that was skipped or failed is followed by one
\* that was fitted
C2_Witness ==
    /\ last.op = "fit_all"
    /\ \E i, j \in 1..Len(last.log) :
          /\ i < j
          /\ last.log[i].event \in {"failed", "skipped"}
          /\ last.log[j].event = "fitted"
          /\ fit_results[i] = None
          /\ fit_results[j] # None

\* C3: every present entry of the collection is a pair (params, errors)
\* whose errors are a one-dimensional vector as long as params (4 or 7).
C3_ErrorsAreVectors ==
    \A k \in 1..Len(fit_results) :
        fit_results[k] # None =>
            /\ Len(fit_results[k].popt) \in {4, 7}
            /\ Ndim(fit_results[k].perr) = 1
            /\ NpLen(fit_results[k].perr) = Len(fit_results[k].popt)

\* C4: the collection is never longer than q of the current dataset.
C4_NeverLonger == Len(fit_results) <= Len(data.q)

\* C5: after a handler that replaced the dataset (use_sample_data, load_file
\* that loaded a file or fell back to the sample data) the collection is
\* empty, and after fit_all it holds the entries of that batch only.
C5_ResetOnReplace ==
    /\ (\/ last.op = "use_sample_data"
        \/ last.op = "load_file" /\ last.outcome \in {"loaded", "fallback"})
          => fit_results = <<>>
    /\ last.op = "fit_all" => Len(fit_results) = Len(last.log)

\* C10: an export writes one data row per present entry and none for an
\* absent one, in increasing index order, and the row of entry i starts with
\* data['q'][i].
C10_OneRowPerPresentEntry ==
    (last.op = "export_results" /\ last.outcome # "cancelled") =>
        LET present == Present(fit_results, Len(fit_results))
            rows == IF last.file = None THEN <<>> ELSE last.file.rows
        IN  /\ Len(rows) = Len(present)
            /\ \A k \in 1..Len(rows) : rows[k][1] = Fmt(data.q[present[k] + 1])
            /\ \A k \in 1..(Len(present) - 1) : present[k] < present[k + 1]

\* C6: fit_spectrum raises the insufficient-data error, without calling the
\* solver, exactly when fewer than 4 elements have finite x, finite y and a
\* positive error; with 4 or more it calls the solver with those elements only.
C6_InsufficientData ==
    call.fn = "fit_spectrum" =>
        LET a == call.args
            valid == {k \in 1..Len(a.x_data) :
                        /\ IsFinite(a.x_data[k])
                        /\ IsFinite(a.y_data[k])
                        /\ a.y_errors[k] # NaN
                        /\ a.y_errors[k] > 0}
            Kept(t) == t[1] \in valid
            kept == SelectSeq([k \in 1..Len(a.x_data) |->
                                 <<k, a.x_data[k], a.y_data[k], a.y_errors[k]>>], Kept)
        IN  /\ (call.ret.raised = "Not enough valid data points for fitting")
                  <=> Cardinality(valid) < 4
            /\ Cardinality(valid) < 4 => ~call.ret.solver
            /\ Cardinality(valid) >= 4 =>
                  /\ call.ret.solver
                  /\ call.ret.given = <<[k \in 1..Len(kept) |-> kept[k][2]],
                                        [k \in 1..Len(kept) |-> kept[k][3]],
                                        [k \in 1..Len(kept) |-> kept[k][4]]>>

\* a call with exactly 3 valid points among 5, which is refused
C6_Witness ==
    /\ call.fn = "fit_spectrum"
    /\ Cardinality(Mask(call.args.x_data, call.args.y_data, call.args.y_errors)) = 3
    /\ call.ret.raised = "Not enough valid data points for fitting"
    /\ ~call.ret.solver

\* C7: when the solver converges and returns a non-finite covariance,
\* fit_spectrum returns the optimum with an all-zero error vector of the
\* same length, and does not fail.
C7_ZeroErrorsWhenSingular ==
    (/\ call.fn = "fit_spectrum"
     /\ call.ret.solver
     /\ call.ret.pcov # None
     /\ \E i \in 1..NpLen(call.ret.pcov) : ~IsFinite(call.ret.pcov.m[i][i]))
        => /\ call.ret.raised = ""
           /\ call.ret.perr = ZerosLike(call.ret.popt)

\* C8: the aggregation yields valid_indices = the increasing list of the
\* indices whose entry is present with 3 or more parameters; position k of
\* centers, amplitudes, widths holds params[1], params[0], params[2] of entry
\* valid_indices[k], and the error series the errors at the same positions;
\* all series are as long as valid_indices; a collection without such an
\* entry yields empty series and nothing is plotted.
C8_Aggregation ==
    call.fn = "plot_fit_results" =>
        LET results == call.args.fit_results
            s == call.ret.series
            vi == s.valid_indices
            wanted == {i \in 0..(Len(results) - 1) :
                          results[i + 1] # None /\ Len(results[i + 1].popt) >= 3}
        IN  /\ {vi[k] : k \in 1..Len(vi)} = wanted
            /\ \A k \in 1..(Len(vi) - 1) : vi[k] < vi[k + 1]
            /\ Len(s.centers) = Len(vi) /\ Len(s.center_errors) = Len(vi)
            /\ Len(s.amplitudes) = Len(vi) /\ Len(s.amplitude_errors) = Len(vi)
            /\ Len(s.widths) = Len(vi) /\ Len(s.width_errors) = Len(vi)
            /\ \A k \in 1..Len(vi) :
                  LET e == results[vi[k] + 1]
                  IN  /\ s.centers[k] = e.popt[2]
                      /\ s.amplitudes[k] = e.popt[1]
                      /\ s.widths[k] = e.popt[3]
                      /\ NpLen(e.perr) > 2 =>
                            /\ s.center_errors[k] = Item(e.perr, 1)
                            /\ s.amplitude_errors[k] = Item(e.perr, 0)
                            /\ s.width_errors[k] = Item(e.perr, 2)
            /\ wanted = {} => (s = NoSeries /\ ~call.ret.plotted)

\* a collection whose entries 0 and 2 are aggregated and whose entry 1 is absent
C8_Witness ==
    /\ call.fn = "plot_fit_results"
    /\ Len(call.args.fit_results) = 3
    /\ call.args.fit_results[2] = None
    /\ call.ret.series.valid_indices = <<0, 2>>
    /\ call.ret.series.centers[2] = call.args.fit_results[3].popt[2]

\* C9, as claimed: a present entry with fewer than 3 parameters contributes
\* its Q index, center and amplitude to the series, and no width.
C9_ShortEntriesContribute ==
    call.fn = "plot_fit_results" =>
        LET results == call.args.fit_results
            s == call.ret.series
        IN  \A i \in 0..(Len(results) - 1) :
               (results[i + 1] # None /\ Len(results[i + 1].popt) = 2) =>
                  \E k \in 1..Len(s.valid_indices) :
                     /\ s.valid_indices[k] = i
                     /\ s.centers[k] = results[i + 1].popt[2]
                     /\ s.amplitudes[k] = results[i + 1].popt[1]

\* C9, amended: a present entry with fewer than 3 parameters contributes
\* nothing (no Q index, hence no center, amplitude or width), and every
\* entry that contributes a center and an amplitude contributes a width.
C9_ShortEntriesSkipped ==
    call.fn = "plot_fit_results" =>
        LET results == call.args.fit_results
            s == call.ret.series
        IN  /\ \A i \in 0..(Len(results) - 1) :
                  (results[i + 1] # None /\ Len(results[i + 1].popt) < 3) =>
                     \A k \in 1..Len(s.valid_indices) : s.valid_indices[k] # i
            /\ Len(s.widths) = Len(s.centers)
            /\ Len(s.centers) = Len(s.valid_indices)
            /\ Len(s.amplitudes) = Len(s.valid_indices)

\* a collection with a 2-parameter entry, which is skipped, and a
\* 4-parameter entry, which is aggregated
C9_Witness ==
    /\ call.fn = "plot_fit_results"
    /\ Len(call.args.fit_results) = 2
    /\ call.args.fit_results[1] # None
    /\ Len(call.args.fit_results[1].popt) = 2
    /\ call.args.fit_results[2] # None
    /\ Len(call.args.fit_results[2].popt) = 4
    /\ call.ret.series.valid_indices = <<1>>

\* C11: an export of a collection without a present entry (empty, or all
\* None) ends with the no-results error, writes no file, and leaves the
\* dataset, the collection and the selected Q index as they were.
C11_NoResultsNoExport ==
    [][(/\ last'.op = "export_results"
        /\ last'.outcome # "cancelled"
        /\ PresentSet(fit_results) = {})
          => /\ last'.outcome \in {"No fit results to export",
                                   "No valid fit results to export"}
             /\ last'.file = None
             /\ UNCHANGED <<data, fit_results, current_q_index>>]_vars

\* an export of a non-empty collection whose entries are all None
C11_Witness ==
    /\ last.op = "export_results"
    /\ Len(fit_results) > 0
    /\ PresentSet(fit_results) = {}
    /\ last.outcome = "No valid fit results to export"
    /\ last.file = None

\* C12: the header and every data row of an exported file have 1 + 2*k
\* fields, k being the number of parameters of the first present entry; the
\* header is Q followed by name, name_error for the parameter indices
\* 0..k-1, named Amplitude, Center, Width, Background and Param_i from 4 on;
\* in the row of an entry with fewer than k parameters the value and error
\* fields of the missing parameters are not-a-number (which to_csv writes as
\* the empty field), and the parameters of an entry beyond k-1 are not written.
C12_ExportFields ==
    (last.op = "export_results" /\ last.file # None) =>
        LET present == Present(fit_results, Len(fit_results))
            k == Len(fit_results[present[1] + 1].popt)
            Name(i) == CASE i = 0 -> "Amplitude"
                         [] i = 1 -> "Center"
                         [] i = 2 -> "Width"
                         [] i = 3 -> "Background"
                         [] OTHER -> "Param_" \o ToString(i)
            header == last.file.header
            rows == last.file.rows
        IN  /\ Len(header) = 1 + 2 * k
            /\ header[1] = "Q"
            /\ \A i \in 0..(k - 1) :
                  /\ header[2 * i + 2] = Name(i)
                  /\ header[2 * i + 3] = Name(i) \o "_error"
            /\ Len(rows) = Len(present)
            /\ \A r \in 1..Len(rows) :
                  LET e == fit_results[present[r] + 1]
                  IN  /\ Len(rows[r]) = 1 + 2 * k
                      /\ \A i \in 0..(k - 1) :
                            IF i < Len(e.popt)
                            THEN rows[r][2 * i + 2] = Fmt(e.popt[i + 1])
                            ELSE /\ rows[r][2 * i + 2] = ""
                                 /\ rows[r][2 * i + 3] = ""

\* an exported file sized by a first entry of 7 parameters, whose second row
\* is that of an entry of 4 parameters and is padded
C12_Witness ==
    /\ last.op = "export_results"
    /\ last.file # None
    /\ Len(last.file.header) = 15
    /\ last.file.header[10] = "Param_4"
    /\ Len(last.file.rows) = 2
    /\ Len(fit_results[2].popt) = 4
    /\ last.file.rows[2][8] # ""
    /\ last.file.rows[2][10] = ""
    /\ last.file.rows[2][15] = ""

\* C13: every dataset load_nexus_file returns has S_data.shape[0] = len(q)
\* and S_data.shape[1] = len(omega); a file whose grid cannot be reconciled
\* with q and omega makes the load fail with the shape-mismatch error and
\* yields no dataset.
C13_ShapeInvariants ==
    call.fn = "load_nexus_file" =>
        LET f == call.args.file
            r == call.ret
            grid == f.s_data.shape
            nq == Len(Flatten(f.q_data))
            nw == Len(Flatten(f.omega_data))
            reconcilable == /\ f.found
                            /\ Len(grid) = 2
                            /\ grid \in {<<nq, nw>>, <<nw, nq>>}
        IN  /\ r.raised = "" =>
                  /\ r.data # None
                  /\ r.data.S_data.shape[1] = Len(r.data.q)
                  /\ r.data.S_data.shape[2] = Len(r.data.omega)
            /\ (f.found /\ Len(grid) = 2 /\ ~reconcilable) =>
                  /\ r.raised = "Data shape mismatch"
                  /\ r.data = None

\* C20: every dataset load_nexus_file returns has S_errors of the shape of
\* S_data, whether the errors came from the file or from the default, and
\* whether or not the grid was transposed; so the error weights the fits
\* take for a spectrum of a file that supplied errors are the file's errors
\* of that spectrum, never the default weight 0.1.
C20_ErrorsShapedLikeData ==
    (call.fn = "load_nexus_file" /\ call.ret.raised = "") =>
        LET f == call.args.file
            d == call.ret.data
        IN  /\ d.S_errors.shape = d.S_data.shape
            /\ (f.errors_data # None /\ Ndim(f.errors_data) = 2
                /\ f.errors_data.shape \in {d.S_data.shape,
                                            <<d.S_data.shape[2], d.S_data.shape[1]>>})
                  => \A i \in 0..(Len(d.q) - 1) :
                        SpectrumErrors(d, i) \in
                           {Row(f.errors_data, i), Row(Transpose(f.errors_data), i)}

\* C14: the handlers that only present or export (on_q_change, which redraws
\* through update_plots and plot_fit_results, and export_results) leave the
\* collection with the same length and the same entries in the same slots,
\* and leave q, omega, S_data and S_errors of the dataset unchanged.
C14_PresentationReadOnly ==
    [][last'.op \in {"on_q_change", "export_results"}
          => /\ Len(fit_results') = Len(fit_results)
             /\ \A k \in 1..Len(fit_results) : fit_results'[k] = fit_results[k]
             /\ data'.q = data.q
             /\ data'.omega = data.omega
             /\ data'.S_data = data.S_data
             /\ data'.S_errors = data.S_errors]_vars

\* a file was exported from a collection that has an absent and a present
\* entry, and both are still in their slots
C14_Witness ==
    /\ last.op = "export_results"
    /\ last.outcome = "exported"
    /\ Len(fit_results) = 2
    /\ fit_results[1] = None
    /\ fit_results[2] # None
    /\ Len(last.file.rows) = 1

\* C15: in fit_all the seed of every spectrum handed to the solver is taken
\* from its valid points (finite x, finite y, error > 0) only: A0 is the
\* largest and C0 the smallest y among them, x0 the x of the first valid
\* point where y is largest, and the width seed is 1.0.
C15_SeedFromValidPoints ==
    last.op = "fit_all" =>
        \A k \in 1..Len(last.log) :
            last.log[k].p0 # <<>> =>
                LET p0 == last.log[k].p0
                    x == data.omega
                    y == Row(data.S_data, k - 1)
                    e == SpectrumErrors(data, k - 1)
                    valid == {j \in 1..Len(x) :
                                 /\ IsFinite(x[j]) /\ IsFinite(y[j])
                                 /\ e[j] # NaN /\ e[j] > 0}
                    top == CHOOSE j \in valid :
                              /\ \A h \in valid : y[h] <= y[j]
                              /\ \A h \in valid : h < j => y[h] < y[j]
                    low == CHOOSE j \in valid : \A h \in valid : y[j] <= y[h]
                IN  /\ p0[1] = y[top]
                    /\ p0[2] = x[top]
                    /\ p0[3] = 100
                    /\ p0[4] = y[low]

\* C16: fit_spectrum rejects infeasible input: when some lower bound exceeds
\* its upper bound, or some component of the initial parameters lies outside
\* [lower, upper], it fails and returns no result; and in the loop of
\* fit_all a spectrum with 4 or more valid points whose smallest valid
\* intensity is below 0, or whose peak lies outside [-10, 10], is recorded
\* as None while every index of the dataset is still visited and recorded.
C16_InfeasibleRejected ==
    /\ call.fn = "fit_spectrum" =>
          LET a == call.args
              infeasible ==
                 \E k \in 1..Len(a.p0) :
                    \/ Gt(a.bounds.lo[k], a.bounds.hi[k])
                    \/ ~Le(a.bounds.lo[k], a.p0[k])
                    \/ ~Le(a.p0[k], a.bounds.hi[k])
          IN  infeasible => (call.ret.raised # "" /\ call.ret.popt = <<>>)
    /\ call.fn = "fit_all" =>
          LET d == call.args.data
              ret == call.ret
          IN  /\ Len(ret.results) = Len(d.q)
              /\ Len(ret.log) = Len(d.q)
              /\ \A k \in 1..Len(d.q) :
                    LET x == d.omega
                        y == Row(d.S_data, k - 1)
                        e == SpectrumErrors(d, k - 1)
                        valid == {j \in 1..Len(x) :
                                     /\ IsFinite(x[j]) /\ IsFinite(y[j])
                                     /\ e[j] # NaN /\ e[j] > 0}
                    IN  (/\ Len(y) = Len(x)
                         /\ Cardinality(valid) >= 4
                         /\ \/ \E j \in valid : y[j] < 0
                            \/ \E j \in valid :
                                  /\ \A h \in valid : y[h] <= y[j]
                                  /\ \A h \in valid : h < j => y[h] < y[j]
                                  /\ (x[j] < 0 - 1000 \/ x[j] > 1000))
                           => ret.results[k] = None

\* a batch whose first spectrum has a negative smallest intensity and is
\* recorded as None after the solver was asked, and whose second spectrum
\* is fitted
C16_Witness ==
    /\ call.fn = "fit_all"
    /\ Len(call.ret.log) = 2
    /\ call.ret.log[1].event = "failed"
    /\ call.ret.log[1].p0 # <<>>
    /\ call.ret.log[1].p0[4] # NaN
    /\ call.ret.log[1].p0[4] < 0
    /\ call.ret.results[1] = None
    /\ call.ret.log[2].event = "fitted"
    /\ call.ret.results[2] # None

\* C17: a fit_current that succeeds pads the collection with None up to
\* length current_q_index + 1 when it was shorter, puts the new pair in slot
\* current_q_index, and leaves every other slot that existed as it was; a
\* fit_current that fails (bad entry text, index out of range, too few valid
\* points, solver failure) leaves the collection exactly as it was.
C17_FitCurrentFrame ==
    [][last'.op = "fit_current" =>
          IF last'.outcome = "fitted"
          THEN LET i == current_q_index
               IN  /\ Len(fit_results') =
                         IF Len(fit_results) <= i THEN i + 1 ELSE Len(fit_results)
                   /\ fit_results'[i + 1] # None
                   /\ \A k \in 1..Len(fit_results') :
                         k # i + 1 =>
                            fit_results'[k] = IF k <= Len(fit_results)
                                              THEN fit_results[k] ELSE None
          ELSE fit_results' = fit_results]_vars

\* a successful fit of spectrum 1 into a collection that was shorter: slot 0
\* is the padding, slot 1 the result
C17_Witness ==
    /\ last.op = "fit_current"
    /\ last.outcome = "fitted"
    /\ current_q_index = 1
    /\ Len(fit_results) = 2
    /\ fit_results[1] = None
    /\ fit_results[2] # None

\* C18: fitting never modifies its inputs: a fit_current or a fit_all (and
\* the fit_spectrum they call) leaves q, omega, S_data and S_errors of the
\* dataset element for element as they were, the masked-out elements
\* included, and changes nothing of the session but the collection.
C18_FittingKeepsInputs ==
    [][last'.op \in {"fit_current", "fit_all"}
          => /\ data'.q = data.q
             /\ data'.omega = data.omega
             /\ data'.S_data = data.S_data
             /\ data'.S_errors = data.S_errors
             /\ UNCHANGED <<current_q_index, slider_to>>]_vars

\* after a batch fit that masked out points (a spectrum skipped for its
\* zero errors, a NaN in the next one), the zero errors and the NaN are
\* still in the dataset
C18_Witness ==
    /\ last.op = "fit_all"
    /\ Len(last.log) = 2
    /\ last.log[1].event = "skipped"
    /\ data.S_errors.m[1][1] = 0
    /\ data.S_data.m[2][NOmega] = NaN

\* C19: in every state of the session the selected index is a valid Q index
\* of the current dataset: 0 <= current_q_index < len(data['q']), also after
\* the dataset was replaced by one with fewer Q values.
C19_IndexInRange ==
    /\ 0 <= current_q_index
    /\ current_q_index < Len(data.q)

====
